---- MODULE Spec2Model ----
(***************************************************************************)
(* A model of the BigCommerce product metafield CLI: the create pipeline   *)
(* (src/actions/create-metafields.ts), the delete pipeline                 *)
(* (src/actions/delete-metafields.ts) and the library functions            *)
(* transformToMetafields and chunk (src/lib/utils.ts).                     *)
(*                                                                         *)
(* Strings are sequences of one-character strings, so that parseInt,       *)
(* split, trim and endsWith are computed character by character.  A        *)
(* JavaScript number or an absent option is a record [kind, val] with      *)
(* kind "num", "nan" or "undefined".                                       *)
(*                                                                         *)
(* `options` is any value of the declared types ProgramOptions and         *)
(* DeleteOptions (src/lib/types.ts): how commander fills it from the       *)
(* command line is outside the repository.  What the file system and the   *)
(* remote API answer (directory listings, unreadable files, failed         *)
(* requests, listed records) is chosen when the program asks.  A batching  *)
(* loop that does not end is followed for MaxIter iterations.              *)
(***************************************************************************)
EXTENDS Integers, Sequences, FiniteSets, TLC

VARIABLES
  cmd,            \* which program runs: "create", "delete", or a library call
  options,        \* program.opts() after commander parsed the command line
  pc,             \* position in the program
  exitCode,       \* status of process.exit (0 when the program simply returns)
  errorMsg,       \* which console.error diagnostic was printed last ("" = none)
  client,         \* main's `client`: TRUE once initializeClient has run
  storeInfo,      \* main's `storeInfo`: TRUE when getStoreInfo returned data
  calls,          \* every request issued to the remote API, in order
  firstItem,      \* readCSVFiles' firstItem (<<>> = null, else <<row>>)
  csvFiles,       \* processAllFiles' csvFiles after filter, sort and slice
  fileIdx,        \* index of the file the outer loop is at
  data,           \* rows of the file being processed
  rowIdx,         \* index of the row the inner loop is at
  metafields,     \* create: records of the current row; delete: fetched records
  loopI,          \* `i` of the create pipeline's inline batching loop
  iter,           \* iterations of the current batching loop (bounds the model)
  posted,         \* batches the inline loop has passed to client.v3.post for the current row
  counters,       \* totalProducts, totalMetafields, successCount, errorCount
  ck,             \* chunk's frame: array, size, i, chunks
  batches,        \* deleteMetafields' batches
  batchIdx,       \* index of the batch deleteMetafields is at
  tally,          \* deleteMetafields' success and failed, and the outcome per batch
  tf              \* a direct call of transformToMetafields: row, productId, out

vars == <<cmd, options, pc, exitCode, errorMsg, client, storeInfo, calls, firstItem,
          csvFiles, fileIdx, data, rowIdx, metafields, loopI, iter, posted, counters,
          ck, batches, batchIdx, tally, tf>>

(***************************************************************************)
(* Bounds of the model.                                                    *)
(***************************************************************************)
MaxBatch == 2        \* largest explicit --batch-size tried (besides the default)
MaxLen == 4          \* longest array handed to chunk directly
MaxCols == 2         \* most columns of a row handed to transformToMetafields directly
MaxItems == 3        \* most records the remote listing returns
MaxFiles == 3        \* most entries of the csv directory
MaxSkip == 1         \* largest --skip and --limit tried
MaxIter == MaxLen + 2 \* iterations after which a batching loop is no longer followed

(***************************************************************************)
(* JavaScript values.                                                      *)
(***************************************************************************)
Undefined == [kind |-> "undefined", val |-> 0]
NaN == [kind |-> "nan", val |-> 0]
Num(n) == [kind |-> "num", val |-> n]

\* ToBoolean of a number-or-undefined: undefined, NaN and 0 are falsy.
Truthy(v) == v.kind = "num" /\ v.val # 0

\* `v || d` for a number-or-undefined v and a number d.
OrElse(v, d) == IF Truthy(v) THEN v.val ELSE d

Min(a, b) == IF a < b THEN a ELSE b
Max(a, b) == IF a > b THEN a ELSE b

\* Array.prototype.slice(start, end) and String.prototype.slice: negative
\* indices count from the end, both are clamped to 0..length.
SliceIndex(k, len) == IF k < 0 THEN Max(len + k, 0) ELSE Min(k, len)

Slice(arr, start, end) ==
  LET from == SliceIndex(start, Len(arr))
      to == SliceIndex(end, Len(arr))
  IN  IF to <= from THEN <<>> ELSE SubSeq(arr, from + 1, to)

\* slice(start) with the end left undefined.
SliceFrom(arr, start) == Slice(arr, start, Len(arr))

RECURSIVE Flatten(_)
Flatten(groups) ==
  IF groups = <<>> THEN <<>> ELSE Head(groups) \o Flatten(Tail(groups))

(***************************************************************************)
(* Strings.                                                                *)
(***************************************************************************)
IsSpace(c) == c = " "
IsDigit(c) == c \in {"0", "1", "2", "3", "4", "5", "6", "7", "8", "9"}

DigitVal(c) ==
  CASE c = "0" -> 0 [] c = "1" -> 1 [] c = "2" -> 2 [] c = "3" -> 3 [] c = "4" -> 4
    [] c = "5" -> 5 [] c = "6" -> 6 [] c = "7" -> 7 [] c = "8" -> 8 [] c = "9" -> 9

DigitChar(d) == <<"0", "1", "2", "3", "4", "5", "6", "7", "8", "9">>[d + 1]

RECURSIVE DropSpaces(_)
DropSpaces(s) ==
  IF s # <<>> /\ IsSpace(Head(s)) THEN DropSpaces(Tail(s)) ELSE s

RECURSIVE DigitPrefix(_)
DigitPrefix(s) ==
  IF s # <<>> /\ IsDigit(Head(s)) THEN <<Head(s)>> \o DigitPrefix(Tail(s)) ELSE <<>>

RECURSIVE DigitsValue(_, _)
DigitsValue(ds, acc) ==
  IF ds = <<>> THEN acc ELSE DigitsValue(Tail(ds), 10 * acc + DigitVal(Head(ds)))

\* parseInt(s) without a radix, for a string s: leading white space is
\* dropped, a sign is read, then the longest run of decimal digits; with no
\* digit the result is NaN.  (The strings of the model hold no "0x" prefix.)
ParseInt(s) ==
  LET t == DropSpaces(s)
      neg == t # <<>> /\ Head(t) = "-"
      u == IF t # <<>> /\ Head(t) \in {"-", "+"} THEN Tail(t) ELSE t
      ds == DigitPrefix(u)
  IN  IF ds = <<>> THEN NaN
      ELSE Num(IF neg THEN 0 - DigitsValue(ds, 0) ELSE DigitsValue(ds, 0))

RECURSIVE NatToStr(_)
NatToStr(n) ==
  IF n < 10 THEN <<DigitChar(n)>> ELSE NatToStr(n \div 10) \o <<DigitChar(n % 10)>>

\* String(n) for an integer n.
NumToStr(n) == IF n < 0 THEN <<"-">> \o NatToStr(0 - n) ELSE NatToStr(n)

\* s.split(sep) for a one-character separator.
RECURSIVE Split(_, _)
Split(s, sep) ==
  IF \A k \in 1..Len(s) : s[k] # sep THEN <<s>>
  ELSE LET k == CHOOSE j \in 1..Len(s) : s[j] = sep /\ \A m \in 1..(j - 1) : s[m] # sep
       IN  <<SubSeq(s, 1, k - 1)>> \o Split(SubSeq(s, k + 1, Len(s)), sep)

\* parts.join(sep).
RECURSIVE Join(_, _)
Join(parts, sep) ==
  IF parts = <<>> THEN <<>>
  ELSE IF Len(parts) = 1 THEN parts[1]
  ELSE parts[1] \o sep \o Join(Tail(parts), sep)

ToUpperChar(c) ==
  CASE c = "a" -> "A" [] c = "b" -> "B" [] c = "j" -> "J" [] c = "k" -> "K"
    [] c = "m" -> "M" [] c = "n" -> "N" [] c = "x" -> "X"
    [] OTHER -> c

\* word.charAt(0).toUpperCase() + word.slice(1)
Capitalize(word) ==
  IF word = <<>> THEN <<>> ELSE <<ToUpperChar(word[1])>> \o SliceFrom(word, 1)

\* s.endsWith(suffix)
EndsWith(s, suffix) ==
  Len(s) >= Len(suffix) /\ SubSeq(s, Len(s) - Len(suffix) + 1, Len(s)) = suffix

\* arktype's "string.trim.preformatted": the string is already trimmed, it
\* neither starts nor ends with white space.
IsTrimmed(s) == s = <<>> \/ (~IsSpace(s[1]) /\ ~IsSpace(s[Len(s)]))

(***************************************************************************)
(* Rows and transformToMetafields (src/lib/utils.ts).  A row is the        *)
(* sequence of its [column, value] entries, in Object.entries order.       *)
(***************************************************************************)
S_id == <<"i", "d">>
S_sku == <<"s", "k", "u">>
S_productPrefix == <<"p", "r", "o", "d", "u", "c", "t", "_">>
S_for == <<" ", "f", "o", "r", " ">>
S_csv == <<".", "c", "s", "v">>

HasKey(row, k) == \E n \in 1..Len(row) : row[n][1] = k

\* row[k], for a key the row has.
Get(row, k) == row[CHOOSE n \in 1..Len(row) : row[n][1] = k][2]

\* const skipColumns = ["id", "sku"]
skipColumns == {S_id, S_sku}

\* row.sku || `product_${productId}`
SkuOf(row, productId) ==
  IF HasKey(row, S_sku) /\ Get(row, S_sku) # <<>>
  THEN Get(row, S_sku)
  ELSE S_productPrefix \o NumToStr(productId)

\* columnSchema.allows([key, value]): the header is none of skipColumns, the
\* value is an already-trimmed string of length > 0.
ColumnAllowed(entry) ==
  /\ entry[1] \notin skipColumns
  /\ IsTrimmed(entry[2])
  /\ Len(entry[2]) > 0

\* The .map callback of transformToMetafields.
ToMetafield(entry, productId, sku) ==
  LET parts == Split(entry[1], ".")
      namespace == Head(parts)
      metafieldKey == Join(Tail(parts), <<".">>)
      words == Split(metafieldKey, "_")
      formattedKey == Join([n \in 1..Len(words) |-> Capitalize(words[n])], <<" ">>)
  IN  [resource_type |-> "product",
       resource_id |-> productId,
       namespace |-> namespace,
       key |-> metafieldKey,
       value |-> entry[2],
       description |-> formattedKey \o S_for \o sku,
       permission_set |-> "write_and_sf_access"]

transformToMetafields(row, productId) ==
  LET sku == SkuOf(row, productId)
      kept == SelectSeq(row, ColumnAllowed)
  IN  [n \in 1..Len(kept) |-> ToMetafield(kept[n], productId, sku)]

\* parseInt(row.id): row.id is undefined when the file has no id column.
RowProductId(row) == IF HasKey(row, S_id) THEN ParseInt(Get(row, S_id)) ELSE NaN

(***************************************************************************)
(* chunk (src/lib/utils.ts): the loop's test and its body.                 *)
(***************************************************************************)
\* i < array.length
ChunkMore(frame) == frame.i < Len(frame.array)

\* The slice stops one element early.
ChunkBody_ShortSlice(frame) ==
  [frame EXCEPT !.chunks = Append(@, Slice(frame.array, frame.i, frame.i + frame.size - 1)),
                !.i = @ + frame.size]

\* chunks.push(array.slice(i, i + size)); i += size
ChunkBody(frame) ==
  [frame EXCEPT !.chunks = Append(@, Slice(frame.array, frame.i, frame.i + frame.size)),
                !.i = @ + frame.size]

ChunkEnter(array, size) == [array |-> array, size |-> size, i |-> 0, chunks |-> <<>>]
NoFrame == ChunkEnter(<<>>, 1)

(***************************************************************************)
(* The csv directory: file names, their rows, and the listings readdir     *)
(* may return.  All rows of a file have the file's header.                 *)
(***************************************************************************)
H_nk == <<"n", ".", "k">>
H_nab == <<"n", ".", "a", ".", "b">>
H_mkj == <<"m", ".", "k", "_", "j">>
H_x == <<"x">>
H_ndot == <<"n", ".">>

F_a == <<"a", ".", "c", "s", "v">>
F_b == <<"b", ".", "c", "s", "v">>
F_ab == <<"a", "b", ".", "c", "s", "v">>
F_txt == <<"a", ".", "t", "x", "t">>

RowA(id, sku, v1, v2, v3) ==
  <<<<S_id, id>>, <<S_sku, sku>>, <<H_nk, v1>>, <<H_nab, v2>>, <<H_mkj, v3>>>>
RowB(id, sku, v1, v2) == <<<<S_id, id>>, <<S_sku, sku>>, <<H_nk, v1>>, <<H_x, v2>>>>
RowC(id, v1) == <<<<S_id, id>>, <<H_nk, v1>>>>

\* What parseCSVFile returns for each file of the directory.
FileRows(name) ==
  CASE name = F_a ->
         <<RowA(<<"1">>, <<"s">>, <<"v">>, <<"w">>, <<"v">>),
           RowA(<<"a">>, <<"s">>, <<"v">>, <<>>, <<>>),
           RowA(<<"2">>, <<>>, <<>>, <<>>, <<>>)>>
    [] name = F_b ->
         <<RowB(<<"-", "5">>, <<"s">>, <<"v">>, <<>>),
           RowB(<<"0">>, <<"s">>, <<"v">>, <<>>),
           RowB(<<"1", "2", "a">>, <<>>, <<"v">>, <<"w">>)>>
    [] name = F_ab -> <<RowC(<<>>, <<"v">>)>>
    [] OTHER -> <<>>

FilePool == {F_a, F_b, F_ab, F_txt}

\* The listings fs.readdir may return: up to MaxFiles distinct entries, in any order.
Listings ==
  {l \in UNION {[1..n -> FilePool] : n \in 0..MaxFiles} :
     \A j, k \in 1..Len(l) : j # k => l[j] # l[k]}

CharCode(c) ==
  CASE c = "." -> 46 [] c = "a" -> 97 [] c = "b" -> 98 [] c = "c" -> 99
    [] c = "s" -> 115 [] c = "t" -> 116 [] c = "v" -> 118 [] c = "x" -> 120

\* s < t as JavaScript compares strings: by code unit, a proper prefix first.
RECURSIVE StrLess(_, _)
StrLess(s, t) ==
  IF t = <<>> THEN FALSE
  ELSE IF s = <<>> THEN TRUE
  ELSE IF Head(s) # Head(t) THEN CharCode(Head(s)) < CharCode(Head(t))
  ELSE StrLess(Tail(s), Tail(t))

\* Array.prototype.sort() without a comparator, on strings.
RECURSIVE SortStrings(_)
SortStrings(names) ==
  IF names = <<>> THEN <<>>
  ELSE LET least == CHOOSE k \in 1..Len(names) :
                      \A j \in 1..Len(names) : ~StrLess(names[j], names[k])
           rest == [j \in 1..(Len(names) - 1) |->
                      IF j < least THEN names[j] ELSE names[j + 1]]
       IN  <<names[least]>> \o SortStrings(rest)

IsCsv(file) == EndsWith(file, S_csv)

\* files.filter(endsWith(".csv")).sort(), then
\* .slice(skipCount, options.limit ? skipCount + options.limit : undefined)
SelectFiles(files, o) ==
  LET sorted == SortStrings(SelectSeq(files, IsCsv))
      skipCount == OrElse(o.skip, 0)
  IN  IF Truthy(o.limit)
      THEN Slice(sorted, skipCount, skipCount + o.limit.val)
      ELSE SliceFrom(sorted, skipCount)

(***************************************************************************)
(* Options and requests.                                                   *)
(***************************************************************************)
DefaultBatchSize == 50

BatchSizes == {Num(n) : n \in ((0 - 1)..MaxBatch) \cup {DefaultBatchSize}}

CreateOptions ==
  [accessToken : BOOLEAN, storeHash : BOOLEAN,
   dryRun : {"undefined", "true", "false"},
   skip : {Num(n) : n \in 0..MaxSkip},
   limit : {Undefined} \cup {Num(n) : n \in 0..MaxSkip},
   batchSize : BatchSizes,
   key : {FALSE}, namespace : {FALSE}, productId : {FALSE}, all : {FALSE}]

\* if (options.dryRun === undefined) options.dryRun = true
NormalizeDryRun(o) == [o EXCEPT !.dryRun = IF @ = "undefined" THEN "true" ELSE @]

IsDryRun(o) == o.dryRun = "true"

\* !options.accessToken || !options.storeHash
MissingCredentials(o) == ~o.accessToken \/ ~o.storeHash

\* if (!options.dryRun && (!options.accessToken || !options.storeHash))
RejectsCredentials(o) == ~IsDryRun(o) /\ MissingCredentials(o)

Request(method, path, body, ok) ==
  [method |-> method, path |-> path, body |-> body, ok |-> ok]

P_store == "/store"
P_metafields == "/catalog/products/metafields"

ZeroCounters ==
  [totalProducts |-> 0, totalMetafields |-> 0, successCount |-> 0, errorCount |-> 0]
ZeroTally == [success |-> 0, failed |-> 0]
NoCall == [row |-> <<>>, productId |-> 0, out |-> <<>>, done |-> FALSE]

Exit(code, msg) ==
  /\ pc' = "exit"
  /\ exitCode' = code
  /\ errorMsg' = msg

(***************************************************************************)
(* The create pipeline (src/actions/create-metafields.ts).                 *)
(***************************************************************************)
InitCreate ==
  /\ cmd = "create"
  /\ options \in CreateOptions
  /\ pc = "start"
  /\ ck = NoFrame
  /\ tf = NoCall

\* Lines 48-59: the dry-run default and the credentials check.
CreateCheckOptions ==
  /\ cmd = "create" /\ pc = "start"
  /\ options' = NormalizeDryRun(options)
  /\ IF RejectsCredentials(options')
     THEN Exit(1, "credentials")
     ELSE pc' = "main" /\ UNCHANGED <<exitCode, errorMsg>>
  /\ UNCHANGED <<cmd, client, storeInfo, calls, firstItem, csvFiles, fileIdx, data,
                 rowIdx, metafields, loopI, iter, posted, counters, ck, batches,
                 batchIdx, tally, tf>>

\* main, lines 187-199 (and the same lines of the delete pipeline's main):
\* with both credentials the client is built and getStoreInfo asks for
\* /store; getStoreInfo catches a failure and returns null.
InitializeClient ==
  IF options.accessToken /\ options.storeHash
  THEN \E ok \in BOOLEAN :
         /\ client' = TRUE
         /\ storeInfo' = ok
         /\ calls' = Append(calls, Request("GET", P_store, <<>>, ok))
  ELSE UNCHANGED <<client, storeInfo, calls>>

CreateMain ==
  /\ cmd = "create" /\ pc = "main"
  /\ InitializeClient
  /\ pc' = "readCSV"
  /\ UNCHANGED <<cmd, options, exitCode, errorMsg, firstItem, csvFiles, fileIdx, data,
                 rowIdx, metafields, loopI, iter, posted, counters, ck, batches,
                 batchIdx, tally, tf>>

\* readCSVFiles, lines 61-106: lists the directory and reads the first
\* selected file for the preview.  A read or parse error is thrown to
\* main's catch, which exits 1.
ReadCSVFiles ==
  /\ cmd = "create" /\ pc = "readCSV"
  /\ \E files \in Listings, readable \in BOOLEAN :
       LET selected == SelectFiles(files, options)
           rows == IF selected = <<>> THEN <<>> ELSE FileRows(selected[1])
       IN  IF selected # <<>> /\ ~readable
           THEN Exit(1, "uncaught") /\ UNCHANGED firstItem
           ELSE /\ firstItem' = IF rows = <<>> THEN <<>> ELSE <<rows[1]>>
                /\ pc' = "process"
                /\ UNCHANGED <<exitCode, errorMsg>>
  /\ UNCHANGED <<cmd, options, client, storeInfo, calls, csvFiles, fileIdx, data,
                 rowIdx, metafields, loopI, iter, posted, counters, ck, batches,
                 batchIdx, tally, tf>>

\* processAllFiles, lines 108-123: lists the directory again and selects.
ProcessAllFiles ==
  /\ cmd = "create" /\ pc = "process"
  /\ \E files \in Listings : csvFiles' = SelectFiles(files, options)
  /\ counters' = ZeroCounters
  /\ fileIdx' = 1
  /\ pc' = "file"
  /\ UNCHANGED <<cmd, options, exitCode, errorMsg, client, storeInfo, calls, firstItem,
                 data, rowIdx, metafields, loopI, iter, posted, ck, batches, batchIdx,
                 tally, tf>>

\* Lines 125-134: the outer loop takes the next file and parses it; after
\* the last file the loop ends and the summary follows.
NextFile ==
  /\ cmd = "create" /\ pc = "file"
  /\ IF fileIdx > Len(csvFiles)
     THEN pc' = "summary" /\ UNCHANGED <<data, rowIdx, exitCode, errorMsg>>
     ELSE \E readable \in BOOLEAN :
            IF readable
            THEN /\ data' = FileRows(csvFiles[fileIdx])
                 /\ rowIdx' = 1
                 /\ pc' = "row"
                 /\ UNCHANGED <<exitCode, errorMsg>>
            ELSE Exit(1, "uncaught") /\ UNCHANGED <<data, rowIdx>>
  /\ UNCHANGED <<cmd, options, client, storeInfo, calls, firstItem, csvFiles, fileIdx,
                 metafields, loopI, iter, posted, counters, ck, batches, batchIdx,
                 tally, tf>>

\* Line 138: if (!productId) continue
SkipsRow(productId) == ~Truthy(productId)

\* The dry-run flag is not looked at.
ShouldSubmit_IgnoringDryRun(o, hasClient, n) == hasClient /\ n > 0

\* Line 144: if (!options.dryRun && client && metafields.length > 0)
ShouldSubmit(o, hasClient, n) == ~IsDryRun(o) /\ hasClient /\ n > 0

\* Line 146: options.batchSize || 50 (and line 254 of the delete pipeline)
EffectiveBatchSize(o) == OrElse(o.batchSize, DefaultBatchSize)

\* Lines 136-144 and 166-171: the inner loop takes the next row; after the
\* last row the outer loop goes on.
NextRow ==
  /\ cmd = "create" /\ pc = "row"
  /\ IF rowIdx > Len(data)
     THEN /\ fileIdx' = fileIdx + 1
          /\ data' = <<>>
          /\ rowIdx' = 1
          /\ pc' = "file"
          /\ UNCHANGED <<metafields, loopI, iter, posted, counters>>
     ELSE LET row == data[rowIdx]
              productId == RowProductId(row)
              out == transformToMetafields(row, productId.val)
          IN  IF SkipsRow(productId)
              THEN /\ rowIdx' = rowIdx + 1
                   /\ UNCHANGED <<pc, metafields, loopI, iter, posted, counters>>
                   /\ UNCHANGED <<fileIdx, data>>
              ELSE /\ counters' = [counters EXCEPT !.totalProducts = @ + 1,
                                                   !.totalMetafields = @ + Len(out)]
                   /\ UNCHANGED <<fileIdx, data>>
                   /\ IF ShouldSubmit(options, client, Len(out))
                      THEN /\ metafields' = out
                           /\ loopI' = 0
                           /\ iter' = 0
                           /\ posted' = <<>>
                           /\ pc' = "batch"
                           /\ UNCHANGED rowIdx
                      ELSE /\ rowIdx' = rowIdx + 1
                           /\ UNCHANGED <<pc, metafields, loopI, iter, posted>>
  /\ UNCHANGED <<cmd, options, exitCode, errorMsg, client, storeInfo, calls, firstItem,
                 csvFiles, ck, batches, batchIdx, tally, tf>>

\* Line 148: metafields.slice(i, i + batchSize)
CurrentBatch == Slice(metafields, loopI, loopI + EffectiveBatchSize(options))

\* Leaving the row: the row's locals go out of scope.
LeaveRow ==
  /\ rowIdx' = rowIdx + 1
  /\ metafields' = <<>>
  /\ loopI' = 0
  /\ iter' = 0
  /\ posted' = <<>>
  /\ pc' = "row"

\* Lines 147-158: one iteration of the batching loop whose post succeeds.
PostBatchOk ==
  /\ cmd = "create" /\ pc = "batch"
  /\ loopI < Len(metafields)
  /\ iter < MaxIter
  /\ calls' = Append(calls, Request("POST", P_metafields, CurrentBatch, TRUE))
  /\ posted' = Append(posted, CurrentBatch)
  /\ counters' = [counters EXCEPT !.successCount = @ + Len(CurrentBatch)]
  /\ loopI' = loopI + EffectiveBatchSize(options)
  /\ iter' = iter + 1
  /\ UNCHANGED <<cmd, options, pc, exitCode, errorMsg, client, storeInfo, firstItem,
                 csvFiles, fileIdx, data, rowIdx, metafields, ck, batches, batchIdx,
                 tally, tf>>

\* The error is counted and ends the loops over the rows and the files.
CatchPostError_EndsRun ==
  /\ counters' = [counters EXCEPT !.errorCount = @ + 1]
  /\ rowIdx' = rowIdx + 1
  /\ metafields' = <<>>
  /\ loopI' = 0
  /\ iter' = 0
  /\ posted' = <<>>
  /\ pc' = "summary"

\* The error is caught inside the loop, which goes on with the next batch.
CatchPostError_PerBatch ==
  /\ counters' = [counters EXCEPT !.errorCount = @ + 1]
  /\ posted' = Append(posted, CurrentBatch)
  /\ loopI' = loopI + EffectiveBatchSize(options)
  /\ iter' = iter + 1
  /\ UNCHANGED <<rowIdx, metafields, pc>>

\* Lines 159-165: the catch around the whole loop: the error is counted and
\* the row is left.
CatchPostError ==
  /\ counters' = [counters EXCEPT !.errorCount = @ + 1]
  /\ LeaveRow

\* Lines 147-152 and 159-165: one iteration whose post throws.
PostBatchFail ==
  /\ cmd = "create" /\ pc = "batch"
  /\ loopI < Len(metafields)
  /\ iter < MaxIter
  /\ calls' = Append(calls, Request("POST", P_metafields, CurrentBatch, FALSE))
  /\ CatchPostError
  /\ UNCHANGED <<cmd, options, exitCode, errorMsg, client, storeInfo, firstItem,
                 csvFiles, fileIdx, data, ck, batches, batchIdx, tally, tf>>

\* Line 147: the loop test fails and the loop ends.
BatchLoopEnd ==
  /\ cmd = "create" /\ pc = "batch"
  /\ ~(loopI < Len(metafields))
  /\ LeaveRow
  /\ UNCHANGED <<cmd, options, exitCode, errorMsg, client, storeInfo, calls, firstItem,
                 csvFiles, fileIdx, data, counters, ck, batches, batchIdx, tally, tf>>

\* Lines 174-183 and 205-248: the summary and the closing report are
\* printed and main returns.
CreateSummary ==
  /\ cmd = "create" /\ pc = "summary"
  /\ Exit(0, "")
  /\ UNCHANGED <<cmd, options, client, storeInfo, calls, firstItem, csvFiles, fileIdx,
                 data, rowIdx, metafields, loopI, iter, posted, counters, ck, batches,
                 batchIdx, tally, tf>>

NextCreate ==
  \/ CreateCheckOptions
  \/ CreateMain
  \/ ReadCSVFiles
  \/ ProcessAllFiles
  \/ NextFile
  \/ NextRow
  \/ PostBatchOk
  \/ PostBatchFail
  \/ BatchLoopEnd
  \/ CreateSummary

(***************************************************************************)
(* The delete pipeline (src/actions/delete-metafields.ts).                 *)
(***************************************************************************)
\* The criteria given on the command line: --key, --namespace, --product-id
\* present or not (a product id that is no number ends the program while the
\* command line is parsed, lines 48-55), and the `all` field of DeleteOptions.
Criteria ==
  {[key |-> k, namespace |-> n, productId |-> p, all |-> a] :
     k \in BOOLEAN, n \in BOOLEAN, p \in BOOLEAN, a \in BOOLEAN}

SomeCriteria ==
  {c \in Criteria :
     \/ ~c.key /\ ~c.namespace /\ ~c.productId
     \/ c.key /\ ~c.namespace /\ ~c.productId /\ ~c.all
     \/ ~c.key /\ c.namespace /\ ~c.productId /\ ~c.all
     \/ ~c.key /\ ~c.namespace /\ c.productId /\ ~c.all
     \/ c.key /\ c.namespace /\ c.productId}

DeleteOptions ==
  {[accessToken |-> t, storeHash |-> h, dryRun |-> d, skip |-> Undefined, limit |-> l,
    batchSize |-> b, key |-> c.key, namespace |-> c.namespace,
    productId |-> c.productId, all |-> c.all] :
     t \in BOOLEAN, h \in BOOLEAN, d \in {"undefined", "true", "false"},
     l \in {Undefined} \cup {Num(n) : n \in 0..MaxSkip}, b \in BatchSizes,
     c \in SomeCriteria}

InitDelete ==
  /\ cmd = "delete"
  /\ options \in DeleteOptions
  /\ pc = "start"
  /\ ck = NoFrame
  /\ tf = NoCall

\* The check gives way to the `all` field.
NoCriteria_UnlessAll(o) == ~o.all /\ ~o.key /\ ~o.namespace /\ ~o.productId

\* Line 83: if (!options.key && !options.namespace && !options.productId)
NoCriteria(o) == ~o.key /\ ~o.namespace /\ ~o.productId

\* Lines 70-92: the dry-run default, the credentials check, the criteria check.
DeleteCheckOptions ==
  /\ cmd = "delete" /\ pc = "start"
  /\ options' = NormalizeDryRun(options)
  /\ IF RejectsCredentials(options')
     THEN Exit(1, "credentials")
     ELSE IF NoCriteria(options')
     THEN Exit(1, "criteria")
     ELSE pc' = "main" /\ UNCHANGED <<exitCode, errorMsg>>
  /\ UNCHANGED <<cmd, client, storeInfo, calls, firstItem, csvFiles, fileIdx, data,
                 rowIdx, metafields, loopI, iter, posted, counters, ck, batches,
                 batchIdx, tally, tf>>

\* main, lines 179-215: the client is built when both credentials are
\* given; without a client the run stops with status 1.
DeleteMain ==
  /\ cmd = "delete" /\ pc = "main"
  /\ InitializeClient
  /\ IF ~IsDryRun(options) /\ ~client'
     THEN Exit(1, "read-only")
     ELSE IF ~client'
     THEN Exit(1, "no-client")
     ELSE pc' = "fetch" /\ UNCHANGED <<exitCode, errorMsg>>
  /\ UNCHANGED <<cmd, options, firstItem, csvFiles, fileIdx, data, rowIdx, metafields,
                 loopI, iter, posted, counters, ck, batches, batchIdx, tally, tf>>

\* A record of the remote listing: its id, and the JavaScript type of each
\* field productMetafieldSchema looks at.
WellTyped ==
  [id |-> "number", resource_id |-> "number", key |-> "string",
   namespace |-> "string", value |-> "string"]

Item(n, types) == [id |-> n, types |-> types]

ItemPool ==
  {Item(1, WellTyped), Item(2, WellTyped), Item(3, WellTyped),
   Item(4, [WellTyped EXCEPT !.value = "undefined"])}

\* What the listing may yield: up to MaxItems distinct records, in any order.
RemoteListings ==
  {l \in UNION {[1..n -> ItemPool] : n \in 0..MaxItems} :
     \A j, k \in 1..Len(l) : j # k => l[j] # l[k]}

\* productMetafieldSchema.allows, lines 8-14.
SchemaAllows(item) == item.types = WellTyped

\* Lines 121-131: items are pushed one by one, and the loop breaks once
\* items.length >= (options.limit || Infinity).
FetchedCount(available, o) ==
  IF Truthy(o.limit) THEN Min(available, Max(1, o.limit.val)) ELSE available

\* Lines 98-113: the query built from the options.
QueryOf(o) == [key |-> o.key, namespace |-> o.namespace, productId |-> o.productId]

\* fetchMetafields, lines 94-143.
FetchMetafields ==
  /\ cmd = "delete" /\ pc = "fetch"
  /\ \/ /\ calls' = Append(calls, Request("GET", P_metafields, QueryOf(options), FALSE))
        /\ Exit(1, "fetch")
        /\ UNCHANGED metafields
     \/ \E listing \in RemoteListings :
          LET items == SubSeq(listing, 1, FetchedCount(Len(listing), options))
          IN  /\ calls' = Append(calls, Request("GET", P_metafields, QueryOf(options), TRUE))
              /\ IF items = <<>>
                 THEN Exit(0, "") /\ UNCHANGED metafields
                 ELSE /\ metafields' = SelectSeq(items, SchemaAllows)
                      /\ pc' = "fetched"
                      /\ UNCHANGED <<exitCode, errorMsg>>
  /\ UNCHANGED <<cmd, options, client, storeInfo, firstItem, csvFiles, fileIdx, data,
                 rowIdx, loopI, iter, posted, counters, ck, batches, batchIdx, tally, tf>>

\* main, lines 220-263: nothing valid was found, or the dry run shows its
\* sample, or deleteMetafields is entered and calls chunk (line 150).
DeleteDispatch ==
  /\ cmd = "delete" /\ pc = "fetched"
  /\ IF Len(metafields) = 0 \/ IsDryRun(options)
     THEN Exit(0, "") /\ UNCHANGED <<ck, iter, tally>>
     ELSE /\ ck' = ChunkEnter(metafields, EffectiveBatchSize(options))
          /\ iter' = 0
          /\ tally' = ZeroTally
          /\ pc' = "chunk"
          /\ UNCHANGED <<exitCode, errorMsg>>
  /\ UNCHANGED <<cmd, options, client, storeInfo, calls, firstItem, csvFiles, fileIdx,
                 data, rowIdx, metafields, loopI, posted, counters, batches, batchIdx, tf>>

\* chunk, lines 50-52: one iteration of the loop.
ChunkStep ==
  /\ pc = "chunk"
  /\ ChunkMore(ck)
  /\ iter < MaxIter
  /\ ck' = ChunkBody(ck)
  /\ iter' = iter + 1
  /\ UNCHANGED <<cmd, options, pc, exitCode, errorMsg, client, storeInfo, calls,
                 firstItem, csvFiles, fileIdx, data, rowIdx, metafields, loopI, posted,
                 counters, batches, batchIdx, tally, tf>>

\* chunk, line 53, back in deleteMetafields (line 150).
ChunkReturnToDelete ==
  /\ cmd = "delete" /\ pc = "chunk"
  /\ ~ChunkMore(ck)
  /\ batches' = ck.chunks
  /\ batchIdx' = 1
  /\ pc' = "delete"
  /\ UNCHANGED <<cmd, options, exitCode, errorMsg, client, storeInfo, calls, firstItem,
                 csvFiles, fileIdx, data, rowIdx, metafields, loopI, iter, posted,
                 counters, ck, tally, tf>>

\* batch.map((metafield) => metafield.id)
IdsOf(batch) == [n \in 1..Len(batch) |-> batch[n].id]

\* Lines 161-167: the delete call of one batch succeeds.
DeleteBatchOk ==
  /\ cmd = "delete" /\ pc = "delete"
  /\ batchIdx <= Len(batches)
  /\ calls' = Append(calls, Request("DELETE", P_metafields, IdsOf(batches[batchIdx]), TRUE))
  /\ tally' = [tally EXCEPT !.success = @ + Len(batches[batchIdx])]
  /\ batchIdx' = batchIdx + 1
  /\ UNCHANGED <<cmd, options, pc, exitCode, errorMsg, client, storeInfo, firstItem,
                 csvFiles, fileIdx, data, rowIdx, metafields, loopI, iter, posted,
                 counters, ck, batches, tf>>

\* The batch is counted as failed and the loop is left.
CatchDeleteError_Breaks ==
  /\ tally' = [tally EXCEPT !.failed = @ + Len(batches[batchIdx])]
  /\ batchIdx' = Len(batches) + 1
  /\ UNCHANGED pc

\* Lines 168-171: the catch inside the loop: the batch is counted as failed
\* and the loop goes on.
CatchDeleteError ==
  /\ tally' = [tally EXCEPT !.failed = @ + Len(batches[batchIdx])]
  /\ batchIdx' = batchIdx + 1
  /\ UNCHANGED pc

\* Lines 161-164 and 168-171: the delete call of one batch throws.
DeleteBatchFail ==
  /\ cmd = "delete" /\ pc = "delete"
  /\ batchIdx <= Len(batches)
  /\ calls' = Append(calls, Request("DELETE", P_metafields, IdsOf(batches[batchIdx]), FALSE))
  /\ CatchDeleteError
  /\ UNCHANGED <<cmd, options, exitCode, errorMsg, client, storeInfo, firstItem,
                 csvFiles, fileIdx, data, rowIdx, metafields, loopI, iter, posted,
                 counters, ck, batches, tf>>

\* Lines 174 and 265-278: the loop is over, the summary is printed and main returns.
DeleteSummary ==
  /\ cmd = "delete" /\ pc = "delete"
  /\ batchIdx > Len(batches)
  /\ Exit(0, "")
  /\ UNCHANGED <<cmd, options, client, storeInfo, calls, firstItem, csvFiles, fileIdx,
                 data, rowIdx, metafields, loopI, iter, posted, counters, ck, batches,
                 batchIdx, tally, tf>>

NextDelete ==
  \/ DeleteCheckOptions
  \/ DeleteMain
  \/ FetchMetafields
  \/ DeleteDispatch
  \/ ChunkStep
  \/ ChunkReturnToDelete
  \/ DeleteBatchOk
  \/ DeleteBatchFail
  \/ DeleteSummary

(***************************************************************************)
(* Direct calls of the library functions, on inputs drawn from bounded     *)
(* sets.                                                                   *)
(***************************************************************************)
NoOptions ==
  [accessToken |-> FALSE, storeHash |-> FALSE, dryRun |-> "true", skip |-> Undefined,
   limit |-> Undefined, batchSize |-> Undefined, key |-> FALSE, namespace |-> FALSE,
   productId |-> FALSE, all |-> FALSE]

ChunkArrays == {[k \in 1..n |-> k] : n \in 0..MaxLen}
ChunkSizes == (0 - MaxBatch)..(MaxBatch + 1)

\* chunk(array, size) is entered (line 49).
InitChunk ==
  /\ cmd = "chunk"
  /\ options = NoOptions
  /\ pc = "chunk"
  /\ ck \in {ChunkEnter(a, n) : a \in ChunkArrays, n \in ChunkSizes}
  /\ tf = NoCall

\* chunk, line 53: the loop is over and chunks is returned.
ChunkReturn ==
  /\ cmd = "chunk" /\ pc = "chunk"
  /\ ~ChunkMore(ck)
  /\ Exit(0, "")
  /\ UNCHANGED <<cmd, options, client, storeInfo, calls, firstItem, csvFiles, fileIdx,
                 data, rowIdx, metafields, loopI, iter, posted, counters, ck, batches,
                 batchIdx, tally, tf>>

TfHeaders == {S_id, S_sku, H_nk, H_nab, H_mkj, H_x, H_ndot}
TfValues == {<<>>, <<" ">>, <<"v">>, <<" ", "v">>}
TfEntries == {<<h, v>> : h \in TfHeaders, v \in TfValues}

\* Rows of up to MaxCols columns; the keys of a row are distinct.
TfRows ==
  {r \in UNION {[1..n -> TfEntries] : n \in 0..MaxCols} :
     \A j, k \in 1..Len(r) : j # k => r[j][1] # r[k][1]}

TfProductIds == {1, 12}

InitTransform ==
  /\ cmd = "transform"
  /\ options = NoOptions
  /\ pc = "call"
  /\ ck = NoFrame
  /\ tf \in {[row |-> r, productId |-> n, out |-> <<>>, done |-> FALSE] :
               r \in TfRows, n \in TfProductIds}

\* transformToMetafields(row, productId) is called and returns.
CallTransform ==
  /\ cmd = "transform" /\ pc = "call"
  /\ tf' = [tf EXCEPT !.out = transformToMetafields(tf.row, tf.productId),
                      !.done = TRUE]
  /\ Exit(0, "")
  /\ UNCHANGED <<cmd, options, client, storeInfo, calls, firstItem, csvFiles, fileIdx,
                 data, rowIdx, metafields, loopI, iter, posted, counters, ck, batches,
                 batchIdx, tally>>

(***************************************************************************)
(* The specification: one of the two programs runs, or a library function  *)
(* is called.                                                              *)
(***************************************************************************)
InitCommon ==
  /\ exitCode = 0
  /\ errorMsg = ""
  /\ client = FALSE
  /\ storeInfo = FALSE
  /\ calls = <<>>
  /\ firstItem = <<>>
  /\ csvFiles = <<>>
  /\ fileIdx = 1
  /\ data = <<>>
  /\ rowIdx = 1
  /\ metafields = <<>>
  /\ loopI = 0
  /\ iter = 0
  /\ posted = <<>>
  /\ counters = ZeroCounters
  /\ batches = <<>>
  /\ batchIdx = 1
  /\ tally = ZeroTally

Init == InitCommon /\ (InitCreate \/ InitDelete \/ InitChunk \/ InitTransform)

Next ==
  \/ NextCreate
  \/ NextDelete
  \/ ChunkReturn
  \/ CallTransform

Spec == Init /\ [][Next]_vars

(***************************************************************************)
(* Vocabulary of the properties.                                           *)
(***************************************************************************)
CallIndices == 1..Len(calls)
HasDot(s) == \E n \in 1..Len(s) : s[n] = "."
IsMutating(call) == call.method \in {"POST", "DELETE"}
IsPost(call) == call.method = "POST"
IsDelete(call) == call.method = "DELETE"
LiveCreate == cmd = "create" /\ ~IsDryRun(options) /\ client

\* None of --key, --namespace and --product-id was given.
NoFilterGiven == ~options.key /\ ~options.namespace /\ ~options.productId

\* The rows of a file that the create pipeline does not skip.
HasValidId(row) == Truthy(RowProductId(row))
ValidRows(rows) == {k \in 1..Len(rows) : HasValidId(rows[k])}

RECURSIVE SumOver(_, _)
SumOver(f, n) == IF n = 0 THEN 0 ELSE f[n] + SumOver(f, n - 1)

\* The rows with a valid id in the first n selected files.
ValidRowsInFiles(n) ==
  SumOver([k \in 1..n |-> Cardinality(ValidRows(FileRows(csvFiles[k])))], n)

\* The step appends a request to the remote API that failed.
FailedCallStep(method) ==
  /\ Len(calls') = Len(calls) + 1
  /\ calls'[Len(calls')].method = method
  /\ ~calls'[Len(calls')].ok

\* groups splits S into consecutive groups of N, the last of 1..N.
IsPartition(groups, S, N) ==
  /\ Flatten(groups) = S
  /\ \A k \in 1..(Len(groups) - 1) : Len(groups[k]) = N
  /\ groups # <<>> => Len(groups[Len(groups)]) \in 1..N
  /\ S = <<>> => groups = <<>>

(***************************************************************************)
(* C1.  In a run of the create or the delete pipeline with dry-run true    *)
(* (also when the flag is absent and defaults to true) no mutating remote  *)
(* call is ever issued: no POST and no DELETE of metafields.               *)
(***************************************************************************)
C1_DryRunNeverMutates ==
  (cmd \in {"create", "delete"} /\ options.dryRun \in {"true", "undefined"})
    => \A k \in CallIndices : ~IsMutating(calls[k])

\* A dry run of the create pipeline with credentials that has gone through
\* rows with metafields and reached its end.
C1_Witness ==
  /\ cmd = "create" /\ IsDryRun(options) /\ client
  /\ pc = "exit" /\ exitCode = 0
  /\ counters.totalMetafields > 0
  /\ calls # <<>>

(***************************************************************************)
(* C2.  In a live create run with credentials a failed submission for one  *)
(* product never halts the run: the rows after it, in the same file and in *)
(* the later selected files, are still transformed and, when they have     *)
(* metafields, submitted, and the run reaches its summary.  As states:     *)
(* whatever posts failed, the products counted are exactly the rows with a *)
(* valid id passed so far; and at the summary every row with a valid id of *)
(* every selected file has been counted and, when it has metafields, its   *)
(* first batch has been posted.                                            *)
(***************************************************************************)
C2_FailureDoesNotHaltCreate ==
  LiveCreate =>
    /\ pc = "row" =>
         counters.totalProducts =
           ValidRowsInFiles(fileIdx - 1)
             + Cardinality({k \in ValidRows(data) : k < rowIdx})
    /\ pc = "batch" =>
         counters.totalProducts =
           ValidRowsInFiles(fileIdx - 1)
             + Cardinality({k \in ValidRows(data) : k <= rowIdx})
    /\ pc \in {"file", "summary"} =>
         counters.totalProducts = ValidRowsInFiles(Min(fileIdx - 1, Len(csvFiles)))
    /\ pc = "summary" =>
         /\ fileIdx = Len(csvFiles) + 1
         /\ \A f \in 1..Len(csvFiles) :
              \A r \in ValidRows(FileRows(csvFiles[f])) :
                LET row == FileRows(csvFiles[f])[r]
                    out == transformToMetafields(row, RowProductId(row).val)
                IN  out # <<>> =>
                      \E k \in CallIndices :
                        /\ IsPost(calls[k])
                        /\ calls[k].body = Slice(out, 0, EffectiveBatchSize(options))

\* The summary is reached although a post failed, and a product after the
\* failed one was submitted with success.
C2_Witness ==
  /\ LiveCreate /\ pc = "summary"
  /\ \E j, k \in CallIndices :
       /\ j < k
       /\ IsPost(calls[j]) /\ ~calls[j].ok /\ calls[j].body # <<>>
       /\ IsPost(calls[k]) /\ calls[k].ok /\ calls[k].body # <<>>
       /\ calls[k].body[1].resource_id # calls[j].body[1].resource_id

(***************************************************************************)
(* C3.  As claimed: in the create pipeline a submission failure is caught  *)
(* at the batch level, so that after a failed batch every remaining batch  *)
(* of the same product is still submitted.  As a state property: at the    *)
(* summary of a live run with a batch size of at least 1, every batch of   *)
(* every row with a valid id has been posted.                              *)
(***************************************************************************)
C3_EveryBatchStillSubmitted ==
  (LiveCreate /\ pc = "summary" /\ EffectiveBatchSize(options) >= 1) =>
    \A f \in 1..Len(csvFiles) :
      \A r \in ValidRows(FileRows(csvFiles[f])) :
        LET row == FileRows(csvFiles[f])[r]
            out == transformToMetafields(row, RowProductId(row).val)
            size == EffectiveBatchSize(options)
        IN  \A i \in 0..(Len(out) - 1) :
              i % size = 0 =>
                \E k \in CallIndices :
                  IsPost(calls[k]) /\ calls[k].body = Slice(out, i, i + size)

(***************************************************************************)
(* C3, amended.  A submission failure is caught at the product level: when *)
(* the create call for one batch fails, the error is counted once, the row *)
(* is left for the next row of the same file, and no later batch of that   *)
(* product is submitted.                                                   *)
(***************************************************************************)
C3_FailureCaughtPerProduct ==
  /\ [][(cmd = "create" /\ FailedCallStep("POST")) =>
          /\ pc = "batch" /\ pc' = "row"
          /\ rowIdx' = rowIdx + 1
          /\ fileIdx' = fileIdx /\ data' = data
          /\ counters' = [counters EXCEPT !.errorCount = @ + 1]]_vars
  /\ [](cmd = "create" =>
          \A j, k \in CallIndices :
            (/\ j < k
             /\ IsPost(calls[j]) /\ ~calls[j].ok /\ calls[j].body # <<>>
             /\ IsPost(calls[k]) /\ calls[k].body # <<>>)
              => calls[k].body[1].resource_id # calls[j].body[1].resource_id)

\* The first of the three batches of product 1 failed with batch size 1;
\* the run went on to its summary with one error counted and no other
\* batch of that product posted.
C3_Witness ==
  /\ LiveCreate /\ pc = "summary"
  /\ EffectiveBatchSize(options) = 1
  /\ counters.errorCount = 1
  /\ \E k \in CallIndices :
       /\ IsPost(calls[k]) /\ ~calls[k].ok
       /\ Len(calls[k].body) = 1
       /\ calls[k].body[1].resource_id = 1
       /\ calls[k].body[1].key = <<"k">>

(***************************************************************************)
(* C4.  In a live delete run every batch of the validated records is       *)
(* submitted exactly once, in order, whatever subset of the delete calls   *)
(* fails; a failed batch does not stop the later ones; at the end success  *)
(* + failed is the number of validated records and success counts exactly  *)
(* the records of the batches whose call succeeded.                        *)
(***************************************************************************)
DeleteCalls == SelectSeq(calls, IsDelete)
Bodies(requests) == [k \in 1..Len(requests) |-> requests[k].body]
RecordsOf(requests, outcome) ==
  SumOver([k \in 1..Len(requests) |->
             IF requests[k].ok = outcome THEN Len(requests[k].body) ELSE 0],
          Len(requests))

\* The live delete run has returned from deleteMetafields and main.
DeleteRunEnded ==
  /\ cmd = "delete" /\ ~IsDryRun(options)
  /\ pc = "exit" /\ exitCode = 0
  /\ metafields # <<>>

C4_EveryDeleteBatchSubmittedOnce ==
  /\ (cmd = "delete" /\ pc = "delete") =>
       /\ Len(DeleteCalls) = batchIdx - 1
       /\ \A k \in 1..Len(DeleteCalls) : DeleteCalls[k].body = IdsOf(batches[k])
       /\ tally.success = RecordsOf(DeleteCalls, TRUE)
       /\ tally.failed = RecordsOf(DeleteCalls, FALSE)
  /\ DeleteRunEnded =>
       /\ IsPartition(Bodies(DeleteCalls), IdsOf(metafields), EffectiveBatchSize(options))
       /\ tally.success + tally.failed = Len(metafields)
       /\ tally.success = RecordsOf(DeleteCalls, TRUE)
       /\ tally.failed = RecordsOf(DeleteCalls, FALSE)

\* Three batches of one record each: the first call failed, the later two
\* were still made and succeeded.
C4_Witness ==
  /\ DeleteRunEnded
  /\ Len(DeleteCalls) = 3
  /\ ~DeleteCalls[1].ok /\ DeleteCalls[2].ok /\ DeleteCalls[3].ok
  /\ tally = [success |-> 2, failed |-> 1]

C6_AllOverrideAccepted ==
  (cmd = "delete" /\ options.all /\ NoFilterGiven) => errorMsg # "criteria"

(***************************************************************************)
(* C7.  As claimed: a batch size of 0 or less is rejected before batching  *)
(* begins and no batching loop runs for ever.  As a property of steps:     *)
(* every iteration of chunk's loop and of the create pipeline's inline     *)
(* loop runs with a size of at least 1 and moves its index forward.        *)
(***************************************************************************)
C7_BatchingStepsAdvance ==
  [][/\ (pc = "chunk" /\ pc' = "chunk" /\ ck' # ck) =>
          (ck.size >= 1 /\ ck'.i > ck.i)
     /\ (cmd = "create" /\ pc = "batch" /\ pc' = "batch") =>
          (Truthy(options.batchSize) => options.batchSize.val >= 1) /\ loopI' > loopI]_vars

(***************************************************************************)
(* C8.  For every sequence S and size N >= 1 the groups chunk(S, N)        *)
(* returns concatenate to S, all but the last have length N, the last has  *)
(* 1..N elements, and an empty S gives no group.  The inline loop of the   *)
(* create pipeline posts the same groups: while it runs, the batches       *)
(* posted are groups of N that concatenate to the records before i, and    *)
(* when its test fails they are that partition of all the records.         *)
(***************************************************************************)
C8_ChunkPartitions ==
  /\ (cmd = "chunk" /\ pc = "exit" /\ ck.size >= 1) =>
       IsPartition(ck.chunks, ck.array, ck.size)
  /\ (cmd = "create" /\ pc = "batch" /\ EffectiveBatchSize(options) >= 1) =>
       /\ Flatten(posted) = SubSeq(metafields, 1, Min(loopI, Len(metafields)))
       /\ \A k \in 1..Len(posted) :
            k < Len(posted) \/ loopI < Len(metafields) =>
              Len(posted[k]) = EffectiveBatchSize(options)
       /\ ~(loopI < Len(metafields)) =>
            IsPartition(posted, metafields, EffectiveBatchSize(options))

\* chunk([1, 2, 3, 4], 3) has returned [[1, 2, 3], [4]].
C8_Witness ==
  /\ cmd = "chunk" /\ pc = "exit"
  /\ ck.array = <<1, 2, 3, 4>> /\ ck.size = 3
  /\ ck.chunks = <<<<1, 2, 3>>, <<4>>>>

(***************************************************************************)
(* C9.  As claimed: in the create pipeline a row whose id does not parse   *)
(* as a positive integer (non-numeric, empty, zero or negative) is skipped *)
(* entirely: the step that takes the row changes no counter, makes no      *)
(* call, does not enter the batching loop, and goes to the next row.       *)
(***************************************************************************)
HasPositiveId(row) == RowProductId(row).kind = "num" /\ RowProductId(row).val > 0

C9_NonPositiveIdSkipped ==
  [][(/\ cmd = "create" /\ pc = "row" /\ rowIdx <= Len(data)
      /\ ~HasPositiveId(data[rowIdx]))
       => /\ counters' = counters
          /\ calls' = calls
          /\ pc' = "row"
          /\ rowIdx' = rowIdx + 1]_vars

(***************************************************************************)
(* C10.  As claimed: transformToMetafields emits no record for a column    *)
(* whose name has no '.': every record comes from a column other than id   *)
(* and sku whose name contains a dot and is namespace.key of the record.   *)
(***************************************************************************)
C10_RecordsFromDottedColumns ==
  (cmd = "transform" /\ tf.done) =>
    \A n \in 1..Len(tf.out) :
      \E c \in 1..Len(tf.row) :
        /\ tf.row[c][1] \notin {S_id, S_sku}
        /\ HasDot(tf.row[c][1])
        /\ tf.row[c][1] = tf.out[n].namespace \o <<".">> \o tf.out[n].key
        /\ tf.row[c][2] = tf.out[n].value

(***************************************************************************)
(* C11.  As claimed: for every row and product id, transformToMetafields   *)
(* emits one record per column other than id and sku whose value is        *)
(* non-empty after trimming, in the row's column order; id, sku and the    *)
(* blank or white-space-only cells give no record.                         *)
(***************************************************************************)
RECURSIVE TrimEnd(_)
TrimEnd(s) ==
  IF s # <<>> /\ IsSpace(s[Len(s)]) THEN TrimEnd(SubSeq(s, 1, Len(s) - 1)) ELSE s

Trim(s) == TrimEnd(DropSpaces(s))

NonBlankColumn(entry) == entry[1] \notin {S_id, S_sku} /\ Trim(entry[2]) # <<>>

C11_OneRecordPerNonBlankColumn ==
  (cmd = "transform" /\ tf.done) =>
    LET cols == SelectSeq(tf.row, NonBlankColumn)
    IN  /\ Len(tf.out) = Len(cols)
        /\ \A n \in 1..Len(cols) :
             /\ cols[n][1] = Join(<<tf.out[n].namespace>> \o Split(tf.out[n].key, "."), <<".">>)
                \/ (tf.out[n].key = <<>> /\ cols[n][1] = tf.out[n].namespace)
             /\ tf.out[n].value = Trim(cols[n][2])

(***************************************************************************)
(* C12.  As claimed: the create pipeline processes exactly the files got   *)
(* by sorting the .csv files of the directory, dropping the first skip of  *)
(* them and taking at most limit of the rest (limit 0: no file; no limit:  *)
(* all the rest), and it processes them in that order.  The listing that   *)
(* readdir returned is a local of processAllFiles, so the first conjunct   *)
(* asks for a listing of which csvFiles is the claimed selection.          *)
(***************************************************************************)
ClaimedSelection(files, skip, limit) ==
  LET sorted == SortStrings(SelectSeq(files, IsCsv))
      last == IF limit = Undefined THEN Len(sorted) ELSE Min(Len(sorted), skip + limit.val)
  IN  SubSeq(sorted, skip + 1, last)

FilesSelected == cmd = "create" /\ pc \in {"file", "row", "batch", "summary"}

C12_SkipThenLimitSelectsFiles ==
  FilesSelected =>
    LET skip == IF options.skip = Undefined THEN 0 ELSE options.skip.val
    IN  /\ \E files \in Listings : csvFiles = ClaimedSelection(files, skip, options.limit)
        /\ options.limit = Num(0) => csvFiles = <<>>
        /\ options.limit # Undefined => Len(csvFiles) <= options.limit.val
        /\ pc \in {"row", "batch"} =>
             /\ fileIdx \in 1..Len(csvFiles)
             /\ data = FileRows(csvFiles[fileIdx])

====
